---------------------------- MODULE Spec2Model ----------------------------
(***************************************************************************)
(* The popup controller of the WattDownload browser extension: the URL     *)
(* classification pass run once on mount (checkUrl) and the download       *)
(* orchestration (handleDownload), in the four variants kept in the        *)
(* repository:                                                              *)
(*   "App"       src/chromium-extension/src/popup/App.tsx                   *)
(*   "part_000"  src/unnamed/part_000                                       *)
(*   "part_001"  src/unnamed/part_001                                       *)
(*   "part_002"  src/unnamed/part_002                                       *)
(* Strings the code inspects (URLs, header values, file names) are          *)
(* sequences of tokens; a token is a substring no regular expression of     *)
(* the code splits.  One action is one task of the event loop: the code     *)
(* from one resumption up to the next await.                                *)
(***************************************************************************)
EXTENDS Integers, Sequences, FiniteSets, TLC

VARIABLES
    variant,        \* which source file is running
    hasTabs,        \* chrome.tabs is defined
    isValidPage,    \* useState<boolean | null>(null): "null", "true", "false"
    storyId,        \* useState<string | null>(null)
    embedImages,    \* useState(true)
    isLoading,      \* useState(false)
    checkPc,        \* position of the checkUrl pass
    url,            \* the const url of checkUrl, while the pass reads it
    lookup,         \* the chapter lookup's response, as far as received
    lookupRequests, \* part ids of the chapter lookups issued, in order
    navigations,    \* navigations of the active tab since the popup opened
    runs            \* the handleDownload invocations, one record per slot

vars == <<variant, hasTabs, isValidPage, storyId, embedImages, isLoading,
          checkPc, url, lookup, lookupRequests, navigations, runs>>

-----------------------------------------------------------------------------
(* Bounds *)

MaxPathLen == 4
MaxNavigations == 1
MaxSlots == 2
MaxValueLen == 3
MaxPairValueLen == 1

-----------------------------------------------------------------------------
(* Values *)

Variants == {"App", "part_000", "part_001", "part_002"}

NULL == <<"null">>

Digits == {"0", "1", "2", "3", "4", "5", "6", "7", "8", "9"}

SeqsUpTo(S, n) == UNION {[1..k -> S] : k \in 0..n}

\* The tabs[0]?.url ?? '' of a window without a readable tab.
EmptyUrl == <<>>

UrlPrefixes ==
    { <<"https://", "www.", "wattpad.com">>,
      <<"http://", "wattpad.com">>,
      <<"https://", "evil.com">>,
      <<"ftp://", "www.", "wattpad.com">>,
      <<"https://", "www.", "www.", "wattpad.com">> }

PathTokens == {"/", "/story/", "1", "2", "-"}

URLs == {EmptyUrl} \cup
        {p \o q : p \in UrlPrefixes, q \in SeqsUpTo(PathTokens, MaxPathLen)}

GroupIds == {<<"9", "9", "9">>, <<"7">>}

DevStoryId == <<"1", "2", "3", "4", "5", "6", "7", "8", "9">>

-----------------------------------------------------------------------------
(* The regular expressions of checkUrl.  Each returns the captured digits, *)
(* or <<>> for a null match (a capture of \d+ is never empty).             *)

\* The prefix without the host test: any host passes.
HostEndAnyHost(u) ==
    IF Len(u) >= 2 /\ u[1] \in {"http://", "https://"}
    THEN IF Len(u) >= 3 /\ u[2] = "www." THEN 3 ELSE 2
    ELSE 0

\* ^https?:\/\/(?:www\.)?wattpad\.com : the index of the host token, 0 if
\* the prefix does not match.
HostEnd(u) ==
    IF Len(u) >= 2 /\ u[1] \in {"http://", "https://"}
    THEN IF u[2] = "wattpad.com" THEN 2
         ELSE IF Len(u) >= 3 /\ u[2] = "www." /\ u[3] = "wattpad.com" THEN 3
         ELSE 0
    ELSE 0

\* (\d+) at index i: the index of the last digit of the greedy run, i-1 if
\* there is none.
DigitRunEnd(u, i) ==
    CHOOSE j \in (i - 1)..Len(u) :
        /\ \A k \in i..j : u[k] \in Digits
        /\ (j = Len(u) \/ u[j + 1] \notin Digits)

\* The direct-story pattern with (\d) for (\d+): one digit captured.
wattpadStoryRegexOneDigit(u) ==
    LET h == HostEnd(u)
        e == DigitRunEnd(u, h + 2)
    IN  IF /\ h > 0
           /\ Len(u) >= h + 1
           /\ u[h + 1] = "/story/"
           /\ e >= h + 2
           /\ Len(u) >= e + 1
           /\ u[e + 1] = "-"
        THEN SubSeq(u, e, e)
        ELSE <<>>

\* /^https?:\/\/(?:www\.)?wattpad\.com\/story\/(\d+)-.*/
wattpadStoryRegex(u) ==
    LET h == HostEnd(u)
        e == DigitRunEnd(u, h + 2)
    IN  IF /\ h > 0
           /\ Len(u) >= h + 1
           /\ u[h + 1] = "/story/"
           /\ e >= h + 2
           /\ Len(u) >= e + 1
           /\ u[e + 1] = "-"
        THEN SubSeq(u, h + 2, e)
        ELSE <<>>

\* /^https?:\/\/(www\.)?wattpad\.com\/story\/(\d+)/ , capture group 2
wattpadStoryRegexApp(u) ==
    LET h == HostEnd(u)
        e == DigitRunEnd(u, h + 2)
    IN  IF /\ h > 0
           /\ Len(u) >= h + 1
           /\ u[h + 1] = "/story/"
           /\ e >= h + 2
        THEN SubSeq(u, h + 2, e)
        ELSE <<>>

\* /^https?:\/\/(?:www\.)?wattpad\.com\/(\d+)/
wattpadStoryPartRegex(u) ==
    LET h == HostEnd(u)
        e == DigitRunEnd(u, h + 2)
    IN  IF /\ h > 0
           /\ Len(u) >= h + 1
           /\ u[h + 1] = "/"
           /\ e >= h + 2
        THEN SubSeq(u, h + 2, e)
        ELSE <<>>

-----------------------------------------------------------------------------
(* The classification pass *)

NoLookup == [state |-> "none", groupId |-> NULL]

\* The bodies response.json() can produce for the chapter lookup: a body
\* that does not parse, the JSON null, an object without groupId, an object
\* with a groupId.
LookupBodies ==
    {[state |-> s, groupId |-> NULL] : s \in {"parse", "null", "nogroup"}}
        \cup {[state |-> "group", groupId |-> g] : g \in GroupIds}

\* useEffect(() => { ... checkUrl() }, []): runs once, after the first render.
MountEffect ==
    /\ checkPc = "mount"
    /\ IF hasTabs
       THEN /\ checkPc' = "tabsQuery"
            /\ UNCHANGED <<isValidPage, storyId>>
       ELSE /\ checkPc' = "done"
            /\ isValidPage' = "true"
            /\ storyId' = DevStoryId
    /\ UNCHANGED <<variant, hasTabs, embedImages, isLoading, url, lookup,
                   lookupRequests, navigations, runs>>

\* chrome.tabs.query settles with the active tab's URL at that moment.
TabsQuerySettle ==
    /\ checkPc = "tabsQuery"
    /\ \E u \in URLs : url' = u
    /\ checkPc' = "gotTabs"
    /\ UNCHANGED <<variant, hasTabs, isValidPage, storyId, embedImages,
                   isLoading, lookup, lookupRequests, navigations, runs>>

\* App.tsx: one pattern, no chapter lookup.
CheckUrlApp ==
    LET match == wattpadStoryRegexApp(url)
    IN  /\ IF match # <<>>
           THEN isValidPage' = "true" /\ storyId' = match
           ELSE isValidPage' = "false" /\ UNCHANGED storyId
        /\ checkPc' = "done"
        /\ UNCHANGED lookupRequests

\* part_000, part_001, part_002: direct story first, then story part.
CheckUrlParts ==
    LET storyMatch == wattpadStoryRegex(url)
        storyPartMatch == wattpadStoryPartRegex(url)
    IN  IF storyMatch # <<>>
        THEN /\ isValidPage' = "true"
             /\ storyId' = storyMatch
             /\ checkPc' = "done"
             /\ UNCHANGED lookupRequests
        ELSE IF storyPartMatch # <<>>
        THEN /\ lookupRequests' = Append(lookupRequests, storyPartMatch)
             /\ checkPc' = "lookup"
             /\ UNCHANGED <<isValidPage, storyId>>
        ELSE /\ isValidPage' = "false"
             /\ checkPc' = "done"
             /\ UNCHANGED <<storyId, lookupRequests>>

\* The code after the tabs query, up to the end of the pass or the lookup's
\* fetch.
CheckUrlContinue ==
    /\ checkPc = "gotTabs"
    /\ IF variant = "App" THEN CheckUrlApp ELSE CheckUrlParts
    /\ url' = EmptyUrl
    /\ UNCHANGED <<variant, hasTabs, embedImages, isLoading, lookup,
                   navigations, runs>>

\* The lookup with one retry after a network error.
LookupSettleRetry ==
    /\ checkPc = "lookup"
    /\ \/ /\ lookup' = [state |-> "network", groupId |-> NULL]
          /\ IF Len(lookupRequests) < 2
             THEN /\ lookupRequests' = Append(lookupRequests, lookupRequests[1])
                  /\ UNCHANGED <<isValidPage, checkPc>>
             ELSE /\ isValidPage' = "false"
                  /\ checkPc' = "done"
                  /\ UNCHANGED lookupRequests
       \/ /\ lookup' = [state |-> "status", groupId |-> NULL]
          /\ checkPc' = "lookupText"
          /\ UNCHANGED <<isValidPage, lookupRequests>>
       \/ /\ lookup' = [state |-> "ok", groupId |-> NULL]
          /\ checkPc' = "lookupJson"
          /\ UNCHANGED <<isValidPage, lookupRequests>>
    /\ UNCHANGED <<variant, hasTabs, storyId, embedImages, isLoading, url,
                   navigations, runs>>

\* await fetch(requestUrl): rejects, or resolves with response.ok or not.
LookupSettle ==
    /\ checkPc = "lookup"
    /\ \/ /\ lookup' = [state |-> "network", groupId |-> NULL]
          /\ isValidPage' = "false"
          /\ checkPc' = "done"
       \/ /\ lookup' = [state |-> "status", groupId |-> NULL]
          /\ checkPc' = "lookupText"
          /\ UNCHANGED isValidPage
       \/ /\ lookup' = [state |-> "ok", groupId |-> NULL]
          /\ checkPc' = "lookupJson"
          /\ UNCHANGED isValidPage
    /\ UNCHANGED <<variant, hasTabs, storyId, embedImages, isLoading, url,
                   lookupRequests, navigations, runs>>

\* await response.text().catch(...), then throw into the catch block.
LookupTextSettle ==
    /\ checkPc = "lookupText"
    /\ isValidPage' = "false"
    /\ checkPc' = "done"
    /\ UNCHANGED <<variant, hasTabs, storyId, embedImages, isLoading, url,
                   lookup, lookupRequests, navigations, runs>>

\* The test as if (data): an object without groupId passes.
GroupIdPresentLax(data) == data.state \in {"group", "nogroup"}

\* if (data && data.groupId): ids of the service are positive, so a groupId
\* that is present is truthy.
GroupIdPresent(data) == data.state = "group"

\* await response.json(), then the test of data.groupId.
LookupJsonSettle ==
    /\ checkPc = "lookupJson"
    /\ \E data \in LookupBodies :
          /\ lookup' = data
          /\ IF data.state # "parse" /\ GroupIdPresent(data)
             THEN isValidPage' = "true" /\ storyId' = data.groupId
             ELSE isValidPage' = "false" /\ UNCHANGED storyId
    /\ checkPc' = "done"
    /\ UNCHANGED <<variant, hasTabs, embedImages, isLoading, url,
                   lookupRequests, navigations, runs>>

\* A navigation that re-runs the classification, as a tabs.onUpdated
\* listener or an effect depending on the URL would.
TabUrlChangeRetrigger ==
    /\ navigations < MaxNavigations
    /\ navigations' = navigations + 1
    /\ checkPc' = IF checkPc = "mount" THEN "mount" ELSE "tabsQuery"
    /\ isValidPage' = "null"
    /\ UNCHANGED <<variant, hasTabs, storyId, embedImages, isLoading, url,
                   lookup, lookupRequests, runs>>

\* The user navigates the active tab; the popup registers no listener.
TabUrlChange ==
    /\ navigations < MaxNavigations
    /\ navigations' = navigations + 1
    /\ UNCHANGED <<variant, hasTabs, isValidPage, storyId, embedImages,
                   isLoading, checkPc, url, lookup, lookupRequests, runs>>

-----------------------------------------------------------------------------
(* File names *)

ValueTokens == {"a", "%20", "b.epub", "%"}

Values(n) == SeqsUpTo(ValueTokens, n) \ {<<>>}

\* The parameters a Content-Disposition header can carry, by form.
ExtParam(v) == <<"filename", "*", "=", "UTF-8''">> \o v
ExtParamLoose(v) == <<"filename", "*", " ", "=", " ", "utf-8''">> \o v
QuotedParam(v) == <<"filename", "=", "\"">> \o v \o <<"\"">>
TokenParam(v) == <<"filename", "=">> \o v

ExtParams(n) == {ExtParam(v) : v \in Values(n)}
                    \cup {ExtParamLoose(v) : v \in Values(n)}
PlainParams(n) == {QuotedParam(v) : v \in Values(n)}
                      \cup {TokenParam(v) : v \in Values(n)}

\* response.headers.get('Content-Disposition') of a response without one.
NoHeader == <<>>

Header1(p) == <<"attachment", ";", " ">> \o p
Header2(p, q) == <<"attachment", ";", " ">> \o p \o <<";", " ">> \o q

\* Headers with at most one filename and one filename* parameter, in either
\* order.
Dispositions ==
    {NoHeader, <<"attachment">>, Header1(QuotedParam(<<>>))}
        \cup {Header1(p) : p \in ExtParams(MaxValueLen) \cup PlainParams(MaxValueLen)}
        \cup {Header2(p, q) : p \in PlainParams(MaxPairValueLen),
                              q \in ExtParams(MaxPairValueLen)}
        \cup {Header2(q, p) : p \in PlainParams(MaxPairValueLen),
                              q \in ExtParams(MaxPairValueLen)}

\* The headers the backend of the full popup model answers with.
SampleDispositions ==
    { NoHeader,
      <<"attachment">>,
      Header1(QuotedParam(<<"a", "b.epub">>)),
      Header1(ExtParam(<<"a", "%20", "b.epub">>)) }

\* The index of the last token of the greedy run, from i, of tokens outside
\* stop; i-1 if the run is empty.
RunEnd(h, i, stop) ==
    CHOOSE j \in (i - 1)..Len(h) :
        /\ \A k \in i..j : h[k] \notin stop
        /\ (j = Len(h) \/ h[j + 1] \in stop)

\* \s* from i: the index of the first token after the white space.
SkipWs(h, i) ==
    CHOOSE j \in i..(Len(h) + 1) :
        /\ \A k \in i..(j - 1) : h[k] = " "
        /\ (j = Len(h) + 1 \/ h[j] # " ")

\* /filename\*\s*=\s*UTF-8''([^;]+)/i tried at index i.
Utf8MatchAt(h, i) ==
    IF i + 1 <= Len(h) /\ h[i] = "filename" /\ h[i + 1] = "*"
    THEN LET e == SkipWs(h, i + 2)
         IN  IF e <= Len(h) /\ h[e] = "="
             THEN LET c == SkipWs(h, e + 1)
                  IN  IF c <= Len(h) /\ h[c] \in {"UTF-8''", "utf-8''"}
                      THEN SubSeq(h, c + 1, RunEnd(h, c + 1, {";"}))
                      ELSE <<>>
             ELSE <<>>
    ELSE <<>>

\* /filename="?([^"]+)"?/ tried at index i.
PlainMatchAt(h, i) ==
    IF i + 1 <= Len(h) /\ h[i] = "filename" /\ h[i + 1] = "="
    THEN IF i + 2 <= Len(h) /\ h[i + 2] = "\""
         THEN SubSeq(h, i + 3, RunEnd(h, i + 3, {"\""}))
         ELSE SubSeq(h, i + 2, RunEnd(h, i + 2, {"\""}))
    ELSE <<>>

\* String.prototype.match without the g flag: the leftmost match.
Utf8Match(h) ==
    LET hits == {i \in 1..Len(h) : Utf8MatchAt(h, i) # <<>>}
    IN  IF hits = {} THEN <<>>
        ELSE Utf8MatchAt(h, CHOOSE i \in hits : \A k \in hits : i <= k)

PlainMatch(h) ==
    LET hits == {i \in 1..Len(h) : PlainMatchAt(h, i) # <<>>}
    IN  IF hits = {} THEN <<>>
        ELSE PlainMatchAt(h, CHOOSE i \in hits : \A k \in hits : i <= k)

\* The value taken undecoded.
decodeNothing(v) == v

\* decodeURIComponent: %20 decodes to a space, a lone % is a URIError.
DecodeThrows(v) == \E i \in 1..Len(v) : v[i] = "%"
decodeURIComponent(v) ==
    [i \in 1..Len(v) |-> IF v[i] = "%20" THEN " " ELSE v[i]]

\* part_000: the file name of the Content-Disposition header, null (<<>>)
\* when it gives none.
DispositionFilename(disposition) ==
    IF disposition = NoHeader THEN <<>>
    ELSE LET utf8 == Utf8Match(disposition)
         IN  IF utf8 # <<>>
             THEN IF DecodeThrows(utf8) THEN utf8 ELSE decodeURIComponent(utf8)
             ELSE PlainMatch(disposition)

\* part_000: if (!filename) filename = `story-${storyId}.epub`
HeaderFilename(disposition, sid) ==
    LET filename == DispositionFilename(disposition)
    IN  IF filename = <<>> THEN <<"story-">> \o sid \o <<".epub">> ELSE filename

\* App.tsx, part_002: `story_${storyId}.epub`
IdFilename(sid) == <<"story_">> \o sid \o <<".epub">>

\* part_001: the bodies metaResponse.json() can produce, and the titles.
Titles == {<<>>, <<"T">>, <<"a", "/", "b">>}
NoMeta == [state |-> "none", title |-> <<>>]
MetaBodies ==
    {[state |-> s, title |-> <<>>] : s \in {"parse", "null", "notitle"}}
        \cup {[state |-> "title", title |-> t] : t \in Titles}

\* title.replace(/[\\/:\*?"<>\|]/g, '_')
Forbidden == {"\\", "/", ":", "*", "?", "\"", "<", ">", "|"}
Sanitize(t) == [i \in 1..Len(t) |-> IF t[i] \in Forbidden THEN "_" ELSE t[i]]

\* part_001: metaData?.title || `story_${storyId}`, sanitized, + .epub
TitleFilename(metaData, sid) ==
    LET title == IF metaData.state = "title" /\ metaData.title # <<>>
                 THEN metaData.title
                 ELSE <<"story_">> \o sid
    IN  Sanitize(title) \o <<".epub">>

-----------------------------------------------------------------------------
(* The download orchestration *)

Slots == 1..MaxSlots

\* Number(storyId): Number(null) is 0, a string of digits its value.
DigitValue(d) ==
    CASE d = "0" -> 0 [] d = "1" -> 1 [] d = "2" -> 2 [] d = "3" -> 3
      [] d = "4" -> 4 [] d = "5" -> 5 [] d = "6" -> 6 [] d = "7" -> 7
      [] d = "8" -> 8 [] d = "9" -> 9

RECURSIVE DecimalValue(_)
DecimalValue(s) ==
    IF s = <<>> THEN 0
    ELSE 10 * DecimalValue(SubSeq(s, 1, Len(s) - 1)) + DigitValue(s[Len(s)])

\* The number of an id that was never set, whatever the id is.
NumberOfUnset(sid) == 0

Number(sid) == IF sid = NULL THEN 0 ELSE DecimalValue(sid)

StatusTexts == {<<"Internal Server Error">>, <<>>}
ErrorStrings == {<<"quota exceeded">>, <<>>}

\* The values errorData can take after response.json().catch(() => null).
NoErrorData == [state |-> "none", error |-> <<>>]
ErrorBodies ==
    {[state |-> s, error |-> <<>>] : s \in {"parse", "null", "noerror"}}
        \cup {[state |-> "error", error |-> e] : e \in ErrorStrings}

\* `API Error: ${errorData?.error || response.statusText}`
ApiErrorMessage(errorData, statusText) ==
    <<"API Error: ">> \o
        (IF errorData.state = "error" /\ errorData.error # <<>>
         THEN errorData.error
         ELSE statusText)

\* The rejections the awaited calls can throw into the catch block.
ErrTitleFetch == <<"TypeError: Failed to fetch", " (title)">>
ErrCookies == <<"Error: cookies.getAll">>
ErrPostFetch == <<"TypeError: Failed to fetch", " (generate-epub)">>
ErrBlob == <<"TypeError: body stream">>
ErrDeliver == <<"TypeError: delivery">>

\* alert('An error occurred during the download.')
AlertText == <<"An error occurred during the download.">>

IdleRun ==
    [ pc |-> "idle",            \* where the invocation is suspended
      sid |-> NULL,             \* storyId as the closure captured it
      emb |-> FALSE,            \* embedImages as the closure captured it
      meta |-> "none",          \* the title fetch: none, network, status, ok
      metaData |-> NoMeta,      \* the title response's parsed body
      filename |-> <<>>,        \* part_001: the name built before the POST
      post |-> "none",          \* the POST: none, sent, network, status, ok
      postStoryId |-> 0,        \* storyId of the POST body
      postEmbed |-> FALSE,      \* isEmbedImages of the POST body
      statusText |-> <<>>,      \* response.statusText of a failed POST
      errorData |-> NoErrorData,
      disposition |-> NoHeader, \* the Content-Disposition of the response
      calls |-> <<>>,           \* the effects of the invocation, in order
      logged |-> <<>>,          \* the message of the error console.error got
      alertMsg |-> <<>>,        \* the text of the alert raised
      saved |-> <<>>,           \* the file name handed to the browser
      cb |-> FALSE ]            \* the downloads.download callback is pending

Active(r) == runs[r].pc \notin {"idle", "done"}

\* A slot is reused once its invocation has ended and its callback has run.
Free(r) == ~Active(r) /\ ~runs[r].cb

HasTitleFetch == variant = "part_001"
NativeDownload == variant \in {"App", "part_002"}

\* A button that is never disabled.
LaxButtonDisabled == FALSE

\* <button onClick={handleDownload} disabled={isLoading}>
ButtonDisabled == isLoading

\* A toggle that is never disabled, in any variant.
ToggleNeverDisabled == FALSE

\* <input type="checkbox" ... disabled={isLoading} /> in part_000 and
\* part_001; App.tsx and part_002 never disable the toggle.
ToggleDisabled == variant \in {"part_000", "part_001"} /\ isLoading

\* onChange={() => setEmbedImages(!embedImages)}; the settings are rendered
\* only in the functional-ui branch.
ToggleEmbed ==
    /\ isValidPage = "true"
    /\ ~ToggleDisabled
    /\ embedImages' = ~embedImages
    /\ UNCHANGED <<variant, hasTabs, isValidPage, storyId, isLoading, checkPc,
                   url, lookup, lookupRequests, navigations, runs>>

\* The state handleDownload never writes.
Frame ==
    UNCHANGED <<variant, hasTabs, isValidPage, storyId, embedImages, checkPc,
                url, lookup, lookupRequests, navigations>>

\* A catch block that alerts the error's own message.
CatchAlertingError(run, error) ==
    [run EXCEPT !.logged = error,
                !.alertMsg = error,
                !.calls = @ \o <<"console.error", "alert">>]

\* catch (error) { console.error('Download failed:', error); alert(...) }
Catch(run, error) ==
    [run EXCEPT !.logged = error,
                !.alertMsg = AlertText,
                !.calls = @ \o <<"console.error", "alert">>]

\* setIsLoading(false) as the last statement of the try block, not in a
\* finally: a failed invocation leaves isLoading set.
LoadingAfterTryOnly(failed) == failed

\* finally { setIsLoading(false) }: the value isLoading gets when the
\* invocation ends, whether it failed or not.
LoadingAfterRun(failed) == FALSE

\* The invocation in slot r ends as `run`.
EndRun(r, run, failed) ==
    /\ runs' = [runs EXCEPT ![r] = [run EXCEPT !.pc = "done"]]
    /\ isLoading' = LoadingAfterRun(failed)

\* The invocation in slot r suspends as `run` at the await `pc`.
Suspend(r, run, pc) ==
    /\ runs' = [runs EXCEPT ![r] = [run EXCEPT !.pc = pc]]
    /\ UNCHANGED isLoading

\* What is left of an earlier invocation when the next one begins: nothing
\* of one that has ended, the callback's closure of one whose callback is
\* pending.
Retire(run) ==
    IF run.pc # "done" THEN run
    ELSE IF run.cb
    THEN [IdleRun EXCEPT !.pc = "done", !.cb = TRUE, !.calls = run.calls]
    ELSE IdleRun

\* A click on the button: setIsLoading(true), then the first awaited call.
ClickDownload ==
    /\ isValidPage = "true"
    /\ ~ButtonDisabled
    /\ \E r \in Slots :
          /\ Free(r)
          /\ \A q \in Slots : Free(q) => r <= q
          /\ isLoading' = TRUE
          /\ runs' = [q \in Slots |->
                IF q = r
                THEN [IdleRun EXCEPT
                        !.sid = storyId,
                        !.emb = embedImages,
                        !.pc = IF HasTitleFetch THEN "meta" ELSE "cookies",
                        !.calls = IF HasTitleFetch THEN <<"fetch.title">>
                                  ELSE <<"cookies.getAll">>]
                ELSE Retire(runs[q])]
    /\ Frame

\* part_001: await fetch(`.../stories/${storyId}?fields=title`)
MetaSettle(r) ==
    /\ runs[r].pc = "meta"
    /\ \/ EndRun(r, Catch([runs[r] EXCEPT !.meta = "network"], ErrTitleFetch), TRUE)
       \/ Suspend(r, [runs[r] EXCEPT !.meta = "status",
                                     !.calls = @ \o <<"console.warn">>], "metaJson")
       \/ Suspend(r, [runs[r] EXCEPT !.meta = "ok"], "metaJson")
    /\ Frame

\* part_001: await metaResponse.json().catch(() => ({})), the file name,
\* then chrome.cookies.getAll
MetaJsonSettle(r) ==
    /\ runs[r].pc = "metaJson"
    /\ \E body \in MetaBodies :
          Suspend(r, [runs[r] EXCEPT !.metaData = body,
                                     !.filename = TitleFilename(body, runs[r].sid),
                                     !.calls = @ \o <<"cookies.getAll">>], "cookies")
    /\ Frame

\* await chrome.cookies.getAll(...), then the POST
CookiesSettle(r) ==
    /\ runs[r].pc = "cookies"
    /\ \/ EndRun(r, Catch(runs[r], ErrCookies), TRUE)
       \/ Suspend(r, [runs[r] EXCEPT !.post = "sent",
                                     !.postStoryId = Number(runs[r].sid),
                                     !.postEmbed = runs[r].emb,
                                     !.calls = @ \o <<"fetch.POST">>], "post")
    /\ Frame

\* await fetch(apiEndpoint, ...): rejects, or resolves ok or not ok
PostSettle(r) ==
    /\ runs[r].pc = "post"
    /\ \/ EndRun(r, Catch([runs[r] EXCEPT !.post = "network"], ErrPostFetch), TRUE)
       \/ \E st \in StatusTexts :
             Suspend(r, [runs[r] EXCEPT !.post = "status", !.statusText = st],
                     "errorJson")
       \/ \E d \in SampleDispositions :
             Suspend(r, [runs[r] EXCEPT !.post = "ok", !.disposition = d], "blob")
    /\ Frame

\* await response.json().catch(() => null); throw new Error(`API Error: ...`)
ErrorJsonSettle(r) ==
    /\ runs[r].pc = "errorJson"
    /\ \E body \in ErrorBodies :
          EndRun(r, Catch([runs[r] EXCEPT !.errorData = body],
                          ApiErrorMessage(body, runs[r].statusText)), TRUE)
    /\ Frame

\* The file name the delivery uses.
DeliveryFilename(run) ==
    CASE variant = "part_000" -> HeaderFilename(run.disposition, run.sid)
      [] variant = "part_001" -> run.filename
      [] OTHER -> IdFilename(run.sid)

\* The <a> tag trick of part_000 and part_001: createObjectURL, the link,
\* link.click(), revokeObjectURL.
DeliverByAnchor(r) ==
    LET made == [runs[r] EXCEPT !.calls = @ \o <<"createObjectURL">>]
    IN  \/ EndRun(r, Catch(made, ErrDeliver), TRUE)
        \/ EndRun(r, [made EXCEPT !.saved = DeliveryFilename(made),
                                  !.calls = @ \o <<"link.click", "revokeObjectURL">>],
                  FALSE)

\* App.tsx and part_002: createObjectURL, chrome.downloads.download with a
\* callback that revokes the URL.
DeliverByDownloads(r) ==
    LET made == [runs[r] EXCEPT !.calls = @ \o <<"createObjectURL">>]
    IN  \/ EndRun(r, Catch(made, ErrDeliver), TRUE)
        \/ EndRun(r, [made EXCEPT !.saved = DeliveryFilename(made),
                                  !.calls = @ \o <<"downloads.download">>,
                                  !.cb = TRUE],
                  FALSE)

\* await response.blob(), then the delivery
BlobSettle(r) ==
    /\ runs[r].pc = "blob"
    /\ \/ EndRun(r, Catch(runs[r], ErrBlob), TRUE)
       \/ IF NativeDownload THEN DeliverByDownloads(r) ELSE DeliverByAnchor(r)
    /\ Frame

\* The callback of chrome.downloads.download: URL.revokeObjectURL(url)
DownloadCallback(r) ==
    /\ runs[r].cb
    /\ runs' = [runs EXCEPT ![r].cb = FALSE,
                            ![r].calls = @ \o <<"revokeObjectURL">>]
    /\ UNCHANGED isLoading
    /\ Frame

-----------------------------------------------------------------------------
(* The popup *)

Init ==
    /\ variant \in Variants
    /\ hasTabs \in BOOLEAN
    /\ isValidPage = "null"
    /\ storyId = NULL
    /\ embedImages = TRUE
    /\ isLoading = FALSE
    /\ checkPc = "mount"
    /\ url = EmptyUrl
    /\ lookup = NoLookup
    /\ lookupRequests = <<>>
    /\ navigations = 0
    /\ runs = [r \in Slots |-> IdleRun]

CheckUrl ==
    \/ MountEffect
    \/ TabsQuerySettle
    \/ CheckUrlContinue
    \/ LookupSettle
    \/ LookupTextSettle
    \/ LookupJsonSettle

HandleDownload ==
    \E r \in Slots :
        \/ MetaSettle(r)
        \/ MetaJsonSettle(r)
        \/ CookiesSettle(r)
        \/ PostSettle(r)
        \/ ErrorJsonSettle(r)
        \/ BlobSettle(r)
        \/ DownloadCallback(r)

Next ==
    \/ CheckUrl
    \/ TabUrlChange
    \/ ToggleEmbed
    \/ ClickDownload
    \/ HandleDownload

Spec == Init /\ [][Next]_vars

\* The event loop runs a continuation of the classification pass once the
\* call it awaits has settled.
FairSpec == Spec /\ WF_vars(CheckUrl)

-----------------------------------------------------------------------------
(* The delivery step alone, over every Content-Disposition header: the     *)
(* popup has classified a direct-story URL, the POST has succeeded and the *)
(* invocation awaits response.blob().                                      *)

FilenameIds == {<<"1">>, <<"1", "2">>}

AwaitingBlob(sid, disposition, body) ==
    [IdleRun EXCEPT
        !.pc = "blob",
        !.sid = sid,
        !.emb = TRUE,
        !.meta = IF HasTitleFetch THEN "ok" ELSE "none",
        !.metaData = IF HasTitleFetch THEN body ELSE NoMeta,
        !.filename = IF HasTitleFetch THEN TitleFilename(body, sid) ELSE <<>>,
        !.post = "ok",
        !.postStoryId = Number(sid),
        !.postEmbed = TRUE,
        !.disposition = disposition,
        !.calls = IF HasTitleFetch
                  THEN <<"fetch.title", "cookies.getAll", "fetch.POST">>
                  ELSE <<"cookies.getAll", "fetch.POST">>]

InitFilename ==
    /\ variant \in Variants
    /\ hasTabs = TRUE
    /\ isValidPage = "true"
    /\ storyId \in FilenameIds
    /\ embedImages = TRUE
    /\ isLoading = TRUE
    /\ checkPc = "done"
    /\ url = EmptyUrl
    /\ lookup = NoLookup
    /\ lookupRequests = <<>>
    /\ navigations = 0
    /\ \E d \in Dispositions :
          \E body \in (IF HasTitleFetch THEN MetaBodies ELSE {NoMeta}) :
              runs = [r \in Slots |->
                        IF r = 1 THEN AwaitingBlob(storyId, d, body) ELSE IdleRun]

NextFilename ==
    \E r \in Slots :
        \/ BlobSettle(r)
        \/ DownloadCallback(r)

FilenameSpec == InitFilename /\ [][NextFilename]_vars

-----------------------------------------------------------------------------
(* Properties of the download orchestration *)

ActiveRuns == {r \in Slots : Active(r)}

\* msg has part as a substring.
Contains(msg, part) ==
    \E i \in 1..(Len(msg) + 1) :
        /\ i + Len(part) - 1 <= Len(msg)
        /\ SubSeq(msg, i, i + Len(part) - 1) = part

Called(run, api) == \E i \in 1..Len(run.calls) : run.calls[i] = api

\* C1: every invocation of handleDownload ends with isLoading = false: when
\* no invocation is running any more, whether the last one delivered the
\* file or failed at the cookies, the POST, the status, the blob or the
\* delivery, isLoading is false.
C1_RunEndsIdle == ActiveRuns = {} => isLoading = FALSE

\* An invocation that failed in the delivery step has ended, and the popup
\* is idle.
C1_Witness ==
    \E r \in Slots :
        /\ runs[r].pc = "done"
        /\ runs[r].logged = ErrDeliver
        /\ Called(runs[r], "alert")
        /\ isLoading = FALSE

\* C2: while isLoading holds the download cannot be triggered: the click is
\* not enabled, so no second cookie read or POST is issued and at most one
\* invocation, hence at most one POST, is in flight.
C2_NoSecondRequest ==
    /\ Cardinality(ActiveRuns) <= 1
    /\ Cardinality({r \in Slots : runs[r].pc = "post"}) <= 1
    /\ ActiveRuns # {} => isLoading
    /\ isLoading => ~ENABLED ClickDownload

\* A POST is in flight and the popup is loading.
C2_Witness ==
    \E r \in Slots : runs[r].pc = "post" /\ isLoading /\ isValidPage = "true"

\* The error string of the failed POST's body if it has one, else the
\* status text.
ErrorDetail(run) ==
    IF run.errorData.state = "error" /\ run.errorData.error # <<>>
    THEN run.errorData.error
    ELSE run.statusText

FailedByStatus(run) == run.pc = "done" /\ run.post = "status"

\* C3 as stated: after a non-success status nothing is delivered, the alert
\* contains the error string of the JSON body, or else the status text, and
\* isLoading is false again.
C3_AlertCarriesError ==
    \A r \in Slots :
        FailedByStatus(runs[r]) =>
            /\ runs[r].saved = <<>>
            /\ ~Called(runs[r], "createObjectURL")
            /\ Called(runs[r], "alert")
            /\ Contains(runs[r].alertMsg, ErrorDetail(runs[r]))
            /\ isLoading = FALSE

\* C3 as amended: after a non-success status nothing is delivered, the alert
\* is the fixed text 'An error occurred during the download.', the error
\* string of the JSON body, or else the status text, is in the message of
\* the logged error only, and isLoading is false again.
C3_AlertIsGeneric ==
    \A r \in Slots :
        FailedByStatus(runs[r]) =>
            /\ runs[r].saved = <<>>
            /\ ~Called(runs[r], "createObjectURL")
            /\ ~Called(runs[r], "link.click")
            /\ ~Called(runs[r], "downloads.download")
            /\ Called(runs[r], "alert")
            /\ runs[r].alertMsg = <<"An error occurred during the download.">>
            /\ runs[r].logged = <<"API Error: ">> \o ErrorDetail(runs[r])
            /\ isLoading = FALSE

\* The POST failed with the body {"error": "quota exceeded"}.
C3_Witness ==
    \E r \in Slots :
        /\ FailedByStatus(runs[r])
        /\ runs[r].errorData = [state |-> "error", error |-> <<"quota exceeded">>]
        /\ runs[r].statusText = <<"Internal Server Error">>
        /\ Called(runs[r], "alert")
        /\ isLoading = FALSE

-----------------------------------------------------------------------------
(* Properties of the classification pass *)

\* C4: isValidPage starts null and changes exactly once: it eventually
\* leaves null, once set it never changes, and the pass, once over, never
\* runs again, whatever downloads and navigations follow.
C4_ClassifiedOnce ==
    /\ isValidPage = "null"
    /\ <>(isValidPage # "null")
    /\ [][isValidPage # "null" => isValidPage' = isValidPage]_vars
    /\ [][checkPc = "done" => checkPc' = "done" /\ lookupRequests' = lookupRequests]_vars

\* The page is classified, the tab has navigated since and a download has
\* run.
C4_Witness ==
    /\ checkPc = "done"
    /\ isValidPage = "true"
    /\ hasTabs
    /\ navigations > 0
    /\ \E r \in Slots : runs[r].pc = "done"

\* The patterns as the specification words them.  The target domain, with
\* either scheme and with or without www.
TargetPrefixes ==
    {<<sch>> \o w \o <<"wattpad.com">> :
        sch \in {"http://", "https://"}, w \in {<<>>, <<"www.">>}}

HasPrefix(u, p) == Len(u) >= Len(p) /\ SubSeq(u, 1, Len(p)) = p

IsDigits(d) == d # <<>> /\ \A i \in 1..Len(d) : d[i] \in Digits

SubSeqs(u) == {SubSeq(u, i, j) : i \in 1..Len(u), j \in 1..Len(u)}

\* /story/<digits>-... on the target domain, <digits> being d.
DirectStory(u, d) ==
    /\ IsDigits(d)
    /\ \E p \in TargetPrefixes : HasPrefix(u, p \o <<"/story/">> \o d \o <<"-">>)

\* /story/<digits> on the target domain, with or without the dash.
DashlessStory(u) ==
    \E d \in SubSeqs(u) :
        /\ IsDigits(d)
        /\ \E p \in TargetPrefixes : HasPrefix(u, p \o <<"/story/">> \o d)

\* /<digits> at the root of the target domain, <digits> being c in full.
StoryChapter(u, c) ==
    /\ IsDigits(c)
    /\ \E p \in TargetPrefixes :
          LET q == p \o <<"/">> \o c
          IN  /\ HasPrefix(u, q)
              /\ (Len(u) = Len(q) \/ u[Len(q) + 1] \notin Digits)

IsDirectStory(u) == \E d \in SubSeqs(u) : DirectStory(u, d)
IsStoryChapter(u) == \E c \in SubSeqs(u) : StoryChapter(u, c)

\* The step of the pass that classifies the URL read from the tab.
ClassifyStep == checkPc = "gotTabs" /\ checkPc' # "gotTabs"

\* C5: for a URL of the direct-story pattern the pass ends at once with
\* isValidPage = true and storyId = the digits of the URL, and no lookup
\* request is ever made.
C5_DirectStoryValid ==
    /\ [][ClassifyStep =>
            \A d \in SubSeqs(url) :
                DirectStory(url, d) =>
                    /\ checkPc' = "done"
                    /\ isValidPage' = "true"
                    /\ storyId' = d
                    /\ lookupRequests' = <<>>]_vars
    /\ [][checkPc = "done" => lookupRequests' = lookupRequests]_vars

\* The pass has classified a direct-story URL with the id 12.
C5_Witness ==
    /\ hasTabs
    /\ checkPc = "done"
    /\ isValidPage = "true"
    /\ storyId = <<"1", "2">>
    /\ lookup = NoLookup
    /\ lookupRequests = <<>>

\* C6: in the variants with the chapter lookup, for a URL of the
\* story-chapter pattern that is no direct-story URL the pass issues one
\* lookup request, for the chapter id of the URL, and never a second one.
C6_OneLookup ==
    /\ [][ClassifyStep /\ variant # "App" /\ ~IsDirectStory(url) =>
            \A c \in SubSeqs(url) :
                StoryChapter(url, c) =>
                    lookupRequests' = <<c>> /\ checkPc' = "lookup"]_vars
    /\ [][Len(lookupRequests') <= 1]_vars
    /\ [][lookupRequests # <<>> => lookupRequests' = lookupRequests]_vars

\* The pass has looked chapter 12 up, once, and is over.
C6_Witness ==
    /\ variant # "App"
    /\ checkPc = "done"
    /\ lookupRequests = <<(<<"1", "2">>)>>
    /\ lookup.state = "network"

LookupFailures == {"network", "status", "parse", "null", "nogroup"}

\* C7: on the story-chapter path the lookup alone decides: a response with a
\* grouping id gives isValidPage = true and storyId = that id; a response
\* without one, a non-success status, a network error or a body that does
\* not parse gives isValidPage = false with storyId still null; one request
\* was made in either case.
C7_LookupDecides ==
    checkPc = "done" /\ lookupRequests # <<>> =>
        /\ Len(lookupRequests) = 1
        /\ lookup.state \in LookupFailures \cup {"group"}
        /\ lookup.state = "group" =>
              isValidPage = "true" /\ storyId = lookup.groupId /\ storyId \in GroupIds
        /\ lookup.state \in LookupFailures =>
              isValidPage = "false" /\ storyId = NULL

\* The lookup answered with an object without groupId.
C7_Witness ==
    /\ checkPc = "done"
    /\ lookup.state = "nogroup"
    /\ Len(lookupRequests) = 1
    /\ isValidPage = "false"

\* C8 as stated: for a URL of neither pattern, the empty URL included, the
\* pass ends with isValidPage = false and no lookup request.
C8_OtherUrlInvalid ==
    [][ClassifyStep /\ ~IsDirectStory(url) /\ ~IsStoryChapter(url) =>
            /\ checkPc' = "done"
            /\ isValidPage' = "false"
            /\ storyId' = NULL
            /\ lookupRequests' = <<>>]_vars

\* C8 as amended: the same, where the direct-story pattern of App.tsx is
\* /story/<digits> with no dash required after the digits.
C8_OtherUrlInvalidPerVariant ==
    [][/\ ClassifyStep
        /\ ~IsDirectStory(url)
        /\ ~IsStoryChapter(url)
        /\ ~(variant = "App" /\ DashlessStory(url))
        => /\ checkPc' = "done"
           /\ isValidPage' = "false"
           /\ storyId' = NULL
           /\ lookupRequests' = <<>>]_vars

\* The pass has read a URL and ended Invalid without a lookup.
C8_Witness ==
    /\ hasTabs
    /\ checkPc = "done"
    /\ isValidPage = "false"
    /\ storyId = NULL
    /\ lookup = NoLookup
    /\ lookupRequests = <<>>

-----------------------------------------------------------------------------
(* Properties of the file name *)

\* The title lookup of the invocation failed: at the network level, with a
\* non-success status, or with a body that does not parse.
TitleLookupFailed(run) ==
    run.meta \in {"network", "status"} \/ run.metaData.state = "parse"

\* C9: in part_001 a failed title lookup is not fatal: the invocation goes
\* on to chrome.cookies.getAll, the failure raises no alert, and the file
\* name is the fallback story_<id>.epub.
C9_TitleFailureNonFatal ==
    \A r \in Slots :
        /\ variant = "part_001"
        /\ TitleLookupFailed(runs[r])
        /\ runs[r].pc \notin {"meta", "metaJson"}
        => /\ Called(runs[r], "cookies.getAll")
           /\ runs[r].logged # ErrTitleFetch
           /\ runs[r].filename = <<"story_">> \o runs[r].sid \o <<".epub">>

\* A value without a malformed percent sequence, and its decoding.
WellFormed(v) == \A i \in 1..Len(v) : v[i] # "%"
PercentDecoded(v) == [i \in 1..Len(v) |-> IF v[i] = "%20" THEN " " ELSE v[i]]

\* The header h carries filename*=UTF-8''<v>, alone or beside a filename=
\* parameter.
CarriesExt(h, v) ==
    \E e \in {ExtParam(v), ExtParamLoose(v)} :
        \/ h = Header1(e)
        \/ \E p \in PlainParams(MaxPairValueLen) :
              h = Header2(p, e) \/ h = Header2(e, p)

\* The run has no title to name the file with.
NoTitle(run) == run.metaData.state # "title" \/ run.metaData.title = <<>>

-----------------------------------------------------------------------------
(* Properties of the settings *)

\* The step flips embedImages and changes nothing else.
FlipsOnly ==
    /\ embedImages' = ~embedImages
    /\ UNCHANGED <<variant, hasTabs, isValidPage, storyId, isLoading, checkPc,
                   url, lookup, lookupRequests, navigations, runs>>

\* C11 as stated: the toggle is enabled exactly when the page is Valid,
\* also while a download is in progress, and a toggle flips embedImages
\* and changes nothing else.
C11_ToggleWheneverValid ==
    /\ [](ENABLED ToggleEmbed <=> isValidPage = "true")
    /\ [][embedImages' # embedImages => FlipsOnly]_vars

\* C11 as amended: in App.tsx and part_002 the toggle is enabled exactly
\* when the page is Valid, also while a download is in progress; in part_000
\* and part_001 exactly when the page is Valid and no download is in
\* progress; a toggle flips embedImages and changes nothing else.
C11_ToggleUnlessDisabled ==
    /\ [](ENABLED ToggleEmbed <=>
            /\ isValidPage = "true"
            /\ (variant \in {"part_000", "part_001"} => isLoading = FALSE))
    /\ [][embedImages' # embedImages => FlipsOnly]_vars

\* App.tsx or part_002: the flag was flipped while a POST, sent with the
\* flag still set, is in flight.
C11_Witness ==
    \E r \in Slots :
        /\ variant \in {"App", "part_002"}
        /\ isValidPage = "true"
        /\ isLoading
        /\ runs[r].pc = "post"
        /\ runs[r].postEmbed = TRUE
        /\ embedImages = FALSE

-----------------------------------------------------------------------------
(* Properties of the object URL *)

DeliveryCalls == {"link.click", "downloads.download"}

\* C12: an invocation that called createObjectURL releases the URL, and only
\* after the delivery was triggered: once it has ended, revokeObjectURL has
\* been called or the native download's callback, which calls it, is still
\* to run; and no revokeObjectURL precedes the link.click or the
\* downloads.download call.
C12_ObjectUrlReleased ==
    \A r \in Slots :
        LET calls == runs[r].calls
        IN  Called(runs[r], "createObjectURL") =>
              /\ runs[r].pc = "done" =>
                    Called(runs[r], "revokeObjectURL") \/ runs[r].cb
              /\ \A i \in 1..Len(calls) :
                    calls[i] = "revokeObjectURL" =>
                        \E j \in 1..(i - 1) : calls[j] \in DeliveryCalls

-----------------------------------------------------------------------------
(* Properties of the request *)

RECURSIVE PowerOfTen(_)
PowerOfTen(n) == IF n = 0 THEN 1 ELSE 10 * PowerOfTen(n - 1)

\* The number a string of decimal digits denotes, read from the left.
RECURSIVE NumericForm(_)
NumericForm(d) ==
    IF d = <<>> THEN 0
    ELSE DigitValue(Head(d)) * PowerOfTen(Len(d) - 1) + NumericForm(Tail(d))

\* C13: the button can be clicked only on a page classified Valid with the
\* story id set; an invocation in progress, and one that has issued its
\* POST, belongs to such a page and holds the id of the classification;
\* and the storyId of the POST body is the number that id denotes, never
\* the number of an unset id.
C13_PostCarriesClassifiedId ==
    /\ ENABLED ClickDownload => isValidPage = "true" /\ storyId # NULL
    /\ \A r \in Slots :
          (Active(r) \/ runs[r].post # "none") =>
              /\ isValidPage = "true"
              /\ storyId # NULL
              /\ IsDigits(storyId)
              /\ runs[r].sid = storyId
    /\ \A r \in Slots :
          runs[r].post # "none" =>
              runs[r].postStoryId = NumericForm(storyId)

\* A POST in flight that carries the id the chapter lookup returned.
C13_Witness ==
    \E r \in Slots :
        /\ runs[r].pc = "post"
        /\ runs[r].post = "sent"
        /\ lookup.state = "group"
        /\ storyId = <<"9", "9", "9">>
        /\ runs[r].postStoryId = 999

=============================================================================
